---- MODULE Spec2Model ----
(***************************************************************************)
(* Model of helpers/evaluation.py: the Evaluator accumulator of            *)
(* (goal, prediction) instances and its metric methods.                    *)
(*                                                                         *)
(* Numbers.  Python floats are modelled as exact rationals <<num, den>>    *)
(* in lowest terms (den > 0).  The transcendental library functions       *)
(* np.log2 and np.sqrt are modelled by tables in thousandths (Scale).      *)
(* A call's outcome is a record [err, val]: err = "none" and the returned  *)
(* value, or the name of the raised exception and val = <<>>.              *)
(* last records the latest call: its method, its outcome and, for          *)
(* average_intra_list_similarity, whether it directly follows another call *)
(* of that method (the path on which the matrix cache can be hit).         *)
(***************************************************************************)
EXTENDS Integers, Sequences, FiniteSets

VARIABLES instances, k, interactions, snapshot, nloads, last

vars == <<instances, k, interactions, snapshot, nloads, last>>

(***************************************************************************)
(* Bounds of the exploration.                                              *)
(***************************************************************************)
MaxCells == 5       \* memory explored: one cell per instance plus one per
                    \* item identifier of its goal and of its prediction
MaxK == 2           \* cutoffs k explored: 0..MaxK

(***************************************************************************)
(* The dataset collaborator and the training file: a fixture.              *)
(***************************************************************************)
item_popularity == <<1, 2>>                 \* indexed by item id + 1
n_items == Len(item_popularity)
Items == 0 .. (n_items - 1)

\* rows (user, item) of data/train_set_triplets
TrainRows == << <<0, 0>>, <<1, 0>>, <<1, 1>> >>
\* rows of a data/train_set_triplets.npy left by an earlier training set
StaleRows == << <<0, 0>>, <<1, 1>> >>

(***************************************************************************)
(* Exact rationals.                                                        *)
(***************************************************************************)
Abs(x) == IF x < 0 THEN -x ELSE x
Min(a, b) == IF a < b THEN a ELSE b

RECURSIVE GCD(_, _)
GCD(a, b) == IF b = 0 THEN a ELSE GCD(b, a % b)

Rat(n, d) == LET g == GCD(Abs(n), d) IN <<n \div g, d \div g>>
Zero == <<0, 1>>
One == <<1, 1>>
RatAdd(a, b) == Rat(a[1] * b[2] + b[1] * a[2], a[2] * b[2])
RatNeg(a) == <<-a[1], a[2]>>
RatDivInt(a, n) == Rat(a[1], a[2] * n)

Ok(v) == [err |-> "none", val |-> v]
Err(e) == [err |-> e, val |-> <<>>]
ZeroDivisionError == Err("ZeroDivisionError")
IndexError == Err("IndexError")

\* sum of a sequence of outcomes, left to right: the first exception ends the loop
RECURSIVE SumResults(_)
SumResults(rs) ==
    IF rs = <<>> THEN Ok(Zero)
    ELSE IF Head(rs).err # "none" THEN Head(rs)
    ELSE LET rest == SumResults(Tail(rs))
         IN IF rest.err # "none" THEN rest
            ELSE Ok(RatAdd(Head(rs).val, rest.val))

\* variant: an empty instance list gives 0 instead of raising
DivByCountGuarded(total, n) ==
    IF total.err # "none" THEN total
    ELSE IF n = 0 THEN Ok(Zero)
    ELSE Ok(RatDivInt(total.val, n))

\* total / len(self.instances)
DivByCount(total, n) ==
    IF total.err # "none" THEN total
    ELSE IF n = 0 THEN ZeroDivisionError
    ELSE Ok(RatDivInt(total.val, n))

\* concatenation of a sequence of outcomes holding lists
RECURSIVE ConcatResults(_)
ConcatResults(rs) ==
    IF rs = <<>> THEN Ok(<<>>)
    ELSE IF Head(rs).err # "none" THEN Head(rs)
    ELSE LET rest == ConcatResults(Tail(rs))
         IN IF rest.err # "none" THEN rest
            ELSE Ok(Head(rs).val \o rest.val)

(***************************************************************************)
(* Lists and sets of item identifiers.                                     *)
(***************************************************************************)
ToSet(s) == {s[i] : i \in DOMAIN s}

\* list(set(...)): the elements once each (CPython iterates a set of small
\* non-negative ints in ascending order)
RECURSIVE SetToList(_)
SetToList(S) ==
    IF S = {} THEN <<>>
    ELSE LET m == CHOOSE x \in S : \A y \in S : x <= y
         IN <<m>> \o SetToList(S \ {m})

Goal(inst) == inst[1]
Prediction(inst) == inst[2]

\* prediction[:min(len(prediction), self.k)]
WindowLen(prediction, kk) == Min(Len(prediction), kk)
\* variant: the cutoff is forgotten
WindowWhole(prediction, kk) == prediction
Window(prediction, kk) == SubSeq(prediction, 1, WindowLen(prediction, kk))

\* variant: | for &
CorrectUnion(goal, prediction, kk) == ToSet(goal) \cup ToSet(Window(prediction, kk))
\* set(goal) & set(prediction[:min(len(prediction), self.k)])
Correct(goal, prediction, kk) == ToSet(goal) \cap ToSet(Window(prediction, kk))

(***************************************************************************)
(* np.log2 and np.sqrt, in thousandths.                                    *)
(***************************************************************************)
Log2Table == <<0, 1000, 1585, 2000, 2322, 2585, 2807, 3000, 3170, 3322>>
log2(n) == Log2Table[n]
Scale == log2(2)    \* 1.0 in the unit of the tables
SqrtTable == <<1000, 1414, 1732, 2000>>
sqrt(n) == SqrtTable[n]

\* variant: ranks counted from 1 inside the logarithm
DiscountFromThree(i) == (Scale * Scale) \div log2(3 + i)
\* 1. / np.log2(2 + i), in thousandths
Discount(i) == (Scale * Scale) \div log2(2 + i)

(***************************************************************************)
(* The interaction matrix: rows = items, columns = users.                  *)
(***************************************************************************)
RECURSIVE MaxCol(_, _)
MaxCol(rows, c) ==
    IF rows = <<>> THEN -1
    ELSE LET m == MaxCol(Tail(rows), c)
         IN IF Head(rows)[c] > m THEN Head(rows)[c] ELSE m

\* ssp.coo_matrix((ones, (file_content[:,1], file_content[:,0]))).tocsr()
Matrix(rows) ==
    [i \in 1 .. (MaxCol(rows, 2) + 1) |->
        [u \in 1 .. (MaxCol(rows, 1) + 1) |->
            Cardinality({r \in DOMAIN rows : rows[r] = <<u - 1, i - 1>>})]]

\* variant: the hasattr test is dropped
NeedsLoadAlways(inter) == TRUE
\* not hasattr(self, "_interactions")
NeedsLoad(inter) == inter = <<>>

\* file_content of _load_interaction_matrix: the snapshot if there is one,
\* else the parsed text file
FileContent(snap) == IF snap # <<>> THEN snap[1] ELSE TrainRows

\* variant: a later call parses the text file again instead of reusing
\* self._interactions
MatrixUsedReparse(inter, snap) ==
    IF inter = <<>> THEN Matrix(FileContent(snap)) ELSE Matrix(TrainRows)

\* the matrix a call of _intra_list_similarity computes with
MatrixUsed(inter, snap) ==
    IF NeedsLoad(inter) THEN Matrix(FileContent(snap)) ELSE inter[1]

RECURSIVE SumRow(_, _)
SumRow(row, u) == IF u = 0 THEN 0 ELSE row[u] + SumRow(row, u - 1)

RECURSIVE DotRows(_, _, _)
DotRows(a, b, u) == IF u = 0 THEN 0 ELSE a[u] * b[u] + DotRows(a, b, u - 1)

\* sims[i, j] / norm[i] / norm[j], in thousandths
Sim(M, a, b) ==
    LET ra == M[a + 1]
        rb == M[b + 1]
        na == sqrt(SumRow(ra, Len(ra)))
        nb == sqrt(SumRow(rb, Len(rb)))
    IN (((DotRows(ra, rb, Len(ra)) * Scale * Scale) \div na) * Scale) \div nb

RECURSIVE PairSum(_, _, _, _)
PairSum(M, items, i, j) ==
    IF i > Len(items) THEN 0
    ELSE IF j >= i THEN PairSum(M, items, i + 1, 1)
    ELSE Sim(M, items[i], items[j]) + PairSum(M, items, i, j + 1)

intra_list_similarity(M, items) ==
    IF \E i \in DOMAIN items : items[i] >= Len(M) THEN IndexError
    ELSE Ok(Rat(PairSum(M, items, 1, 1), Scale))

(***************************************************************************)
(* The metrics.                                                            *)
(***************************************************************************)
average_intra_list_similarity(insts, kk, M) ==
    LET c(inst) == IF Len(Prediction(inst)) > 0
                   THEN intra_list_similarity(M, Window(Prediction(inst), kk))
                   ELSE Ok(Zero)
    IN DivByCount(SumResults([i \in DOMAIN insts |-> c(insts[i])]), Len(insts))

get_correct_predictions(insts, kk) ==
    LET c(inst) == Ok(SetToList(Correct(Goal(inst), Prediction(inst), kk)))
    IN ConcatResults([i \in DOMAIN insts |-> c(insts[i])])

\* np.argpartition(-item_popularity, nb_pop_items)[:nb_pop_items]
pop_items ==
    LET nb == n_items \div 100
    IN CHOOSE S \in SUBSET Items :
        /\ Cardinality(S) = nb
        /\ \A i \in S : \A j \in Items \ S :
              item_popularity[i + 1] >= item_popularity[j + 1]

success_in_top_items(insts, kk) ==
    LET cp == get_correct_predictions(insts, kk).val
        hits == Cardinality({i \in DOMAIN cp : cp[i] \in pop_items})
    IN IF Len(cp) = 0 THEN ZeroDivisionError ELSE Ok(Rat(hits, Len(cp)))

RECURSIVE SumSeq(_)
SumSeq(s) == IF s = <<>> THEN 0 ELSE Head(s) + SumSeq(Tail(s))

\* sum(map(np.log2, item_popularity[window] / nb_of_ratings)), in thousandths
LogSum(window) ==
    LET nb_of_ratings == SumSeq(item_popularity)
    IN SumSeq([i \in DOMAIN window |->
                  log2(item_popularity[window[i] + 1]) - log2(nb_of_ratings)])

average_novelty(insts, kk) ==
    LET c(inst) ==
            LET p == Prediction(inst)
                w == WindowLen(p, kk)
            IN IF Len(p) > 0
               THEN IF w = 0 THEN ZeroDivisionError
                    ELSE Ok(Rat(LogSum(Window(p, kk)), Scale * w))
               ELSE Ok(Zero)
        r == DivByCount(SumResults([i \in DOMAIN insts |-> c(insts[i])]), Len(insts))
    IN IF r.err # "none" THEN r ELSE Ok(RatNeg(r.val))

PrecisionContrib(goal, p, kk) ==
    IF Len(p) > 0
    THEN IF WindowLen(p, kk) = 0 THEN ZeroDivisionError
         ELSE Ok(Rat(Cardinality(Correct(goal, p, kk)), WindowLen(p, kk)))
    ELSE Ok(Zero)

average_precision(insts, kk) ==
    LET c(inst) == PrecisionContrib(Goal(inst), Prediction(inst), kk)
    IN DivByCount(SumResults([i \in DOMAIN insts |-> c(insts[i])]), Len(insts))

RecallContrib(goal, p, kk) ==
    IF Len(goal) > 0
    THEN Ok(Rat(Cardinality(Correct(goal, p, kk)), Len(goal)))
    ELSE Ok(Zero)

average_recall(insts, kk) ==
    LET c(inst) == RecallContrib(Goal(inst), Prediction(inst), kk)
    IN DivByCount(SumResults([i \in DOMAIN insts |-> c(insts[i])]), Len(insts))

\* variant: max_dcg stops one position early
RECURSIVE DcgLoopShortIdeal(_, _, _, _)
DcgLoopShortIdeal(goal, window, i, acc) ==
    IF i >= Len(window) THEN acc
    ELSE LET m == IF i + 1 < Len(goal) THEN acc[2] + Discount(i) ELSE acc[2]
             d == IF window[i + 1] \in ToSet(goal) THEN acc[1] + Discount(i) ELSE acc[1]
         IN DcgLoopShortIdeal(goal, window, i + 1, <<d, m>>)

\* the loop of average_ndcg over enumerate(window), from position i (0-based):
\* the pair <<dcg, max_dcg>> in thousandths
RECURSIVE DcgLoop(_, _, _, _)
DcgLoop(goal, window, i, acc) ==
    IF i >= Len(window) THEN acc
    ELSE LET m == IF i < Len(goal) THEN acc[2] + Discount(i) ELSE acc[2]
             d == IF window[i + 1] \in ToSet(goal) THEN acc[1] + Discount(i) ELSE acc[1]
         IN DcgLoop(goal, window, i + 1, <<d, m>>)

NdcgContrib(goal, p, kk) ==
    IF Len(p) > 0
    THEN LET dm == DcgLoop(goal, Window(p, kk), 0, <<0, 0>>)
         IN IF dm[2] = 0 THEN ZeroDivisionError ELSE Ok(Rat(dm[1], dm[2]))
    ELSE Ok(Zero)

average_ndcg(insts, kk) ==
    LET c(inst) == NdcgContrib(Goal(inst), Prediction(inst), kk)
    IN DivByCount(SumResults([i \in DOMAIN insts |-> c(insts[i])]), Len(insts))

Bit(b) == IF b THEN One ELSE Zero

strict_success_percentage(insts, kk) ==
    LET c(inst) == IF Len(Goal(inst)) = 0 THEN IndexError
                   ELSE Ok(Bit(Goal(inst)[1] \in ToSet(Window(Prediction(inst), kk))))
    IN DivByCount(SumResults([i \in DOMAIN insts |-> c(insts[i])]), Len(insts))

general_success_percentage(insts, kk) ==
    LET c(inst) == Ok(Bit(Correct(Goal(inst), Prediction(inst), kk) # {}))
    IN DivByCount(SumResults([i \in DOMAIN insts |-> c(insts[i])]), Len(insts))

(***************************************************************************)
(* The getters.                                                            *)
(***************************************************************************)
get_all_goals(insts) ==
    LET c(inst) == Ok(Goal(inst))
    IN ConcatResults([i \in DOMAIN insts |-> c(insts[i])])

get_strict_goals(insts) ==
    LET c(inst) == IF Len(Goal(inst)) = 0 THEN IndexError ELSE Ok(<<Goal(inst)[1]>>)
    IN ConcatResults([i \in DOMAIN insts |-> c(insts[i])])

get_all_predictions(insts, kk) ==
    LET c(inst) == Ok(Window(Prediction(inst), kk))
    IN ConcatResults([i \in DOMAIN insts |-> c(insts[i])])

get_correct_strict_predictions(insts, kk) ==
    LET c(inst) == IF Len(Goal(inst)) = 0 THEN IndexError
                   ELSE Ok(SetToList({Goal(inst)[1]} \cap ToSet(Window(Prediction(inst), kk))))
    IN ConcatResults([i \in DOMAIN insts |-> c(insts[i])])

\* np.argsort(prediction): the 0-based indices of prediction in ascending
\* order of value (ties in index order: numpy sorts short arrays by insertion)
argsort(s) ==
    LET rank(j) == Cardinality({i \in DOMAIN s :
                        s[i] < s[j] \/ (s[i] = s[j] /\ i < j)})
    IN [r \in DOMAIN s |-> (CHOOSE j \in DOMAIN s : rank(j) = r - 1) - 1]

get_rank_comparison(insts) ==
    LET c(inst) ==
            LET a == argsort(Prediction(inst))
                g == Goal(inst)
            IN IF \E i \in DOMAIN g : g[i] >= Len(a) THEN IndexError
               ELSE Ok([i \in DOMAIN g |-> <<i - 1, a[g[i] + 1]>>])
    IN ConcatResults([i \in DOMAIN insts |-> c(insts[i])])

(***************************************************************************)
(* The methods by name.                                                    *)
(***************************************************************************)
ILS == "average_intra_list_similarity"

Metrics == {"success_in_top_items", "average_novelty", "average_precision",
            "average_recall", "average_ndcg", "strict_success_percentage",
            "general_success_percentage"}

Getters == {"get_all_goals", "get_strict_goals", "get_all_predictions",
            "get_correct_predictions", "get_correct_strict_predictions",
            "get_rank_comparison"}

\* the outcome of calling method op on an Evaluator holding insts, cutoff kk,
\* whose _intra_list_similarity computes with matrix M
Call(op, insts, kk, M) ==
    CASE op = ILS -> average_intra_list_similarity(insts, kk, M)
      [] op = "success_in_top_items" -> success_in_top_items(insts, kk)
      [] op = "average_novelty" -> average_novelty(insts, kk)
      [] op = "average_precision" -> average_precision(insts, kk)
      [] op = "average_recall" -> average_recall(insts, kk)
      [] op = "average_ndcg" -> average_ndcg(insts, kk)
      [] op = "strict_success_percentage" -> strict_success_percentage(insts, kk)
      [] op = "general_success_percentage" -> general_success_percentage(insts, kk)
      [] op = "get_all_goals" -> get_all_goals(insts)
      [] op = "get_strict_goals" -> get_strict_goals(insts)
      [] op = "get_all_predictions" -> get_all_predictions(insts, kk)
      [] op = "get_correct_predictions" -> get_correct_predictions(insts, kk)
      [] op = "get_correct_strict_predictions" -> get_correct_strict_predictions(insts, kk)
      [] op = "get_rank_comparison" -> get_rank_comparison(insts)

(***************************************************************************)
(* State machine.                                                          *)
(***************************************************************************)
\* lists of item identifiers of length at most n
ListsUpTo(n) == UNION {[1 .. m -> Items] : m \in 0 .. n}

RECURSIVE Cells(_)
Cells(insts) ==
    IF insts = <<>> THEN 0
    ELSE 1 + Len(Goal(Head(insts))) + Len(Prediction(Head(insts))) + Cells(Tail(insts))

\* Evaluator(dataset, k): no instance, no _interactions attribute; the
\* snapshot file is absent, or was left by an earlier run (nothing checks
\* that it still agrees with the text file)
Init ==
    /\ instances = <<>>
    /\ k \in 0 .. MaxK
    /\ interactions = <<>>
    /\ snapshot \in {<<>>, <<StaleRows>>}
    /\ nloads = 0
    /\ last = [op |-> "__init__", ret |-> Ok(<<>>), again |-> FALSE]

\* variant: insert(0, ...) for append
InstancesAfterAddFront(insts, goal, predictions) == <<<<goal, predictions>>>> \o insts
\* self.instances.append([goal, predictions])
InstancesAfterAdd(insts, goal, predictions) == Append(insts, <<goal, predictions>>)

add_instance ==
    /\ Cells(instances) < MaxCells
    /\ \E goal \in ListsUpTo(MaxCells - Cells(instances) - 1) :
         \E predictions \in ListsUpTo(MaxCells - Cells(instances) - 1 - Len(goal)) :
            instances' = InstancesAfterAdd(instances, goal, predictions)
    /\ last' = [op |-> "add_instance", ret |-> Ok(<<>>), again |-> FALSE]
    /\ UNCHANGED <<k, interactions, snapshot, nloads>>

\* average_intra_list_similarity: _intra_list_similarity is called for every
\* instance with a non-empty prediction, and its first call loads the matrix
call_average_intra_list_similarity ==
    LET called == \E i \in DOMAIN instances : Len(Prediction(instances[i])) > 0
        load == called /\ NeedsLoad(interactions)
        content == FileContent(snapshot)
    IN /\ last' = [op |-> ILS,
                   ret |-> Call(ILS, instances, k, MatrixUsed(interactions, snapshot)),
                   again |-> last.op = ILS]
       /\ interactions' = IF load THEN <<Matrix(content)>> ELSE interactions
       /\ snapshot' = IF load THEN <<content>> ELSE snapshot
       /\ nloads' = IF load THEN nloads + 1 ELSE nloads
       /\ UNCHANGED <<instances, k>>

call_metric ==
    \E op \in Metrics :
       /\ last' = [op |-> op, ret |-> Call(op, instances, k, <<>>), again |-> FALSE]
       /\ UNCHANGED <<instances, k, interactions, snapshot, nloads>>

call_getter ==
    \E op \in Getters :
       /\ last' = [op |-> op, ret |-> Call(op, instances, k, <<>>), again |-> FALSE]
       /\ UNCHANGED <<instances, k, interactions, snapshot, nloads>>

Next ==
    \/ add_instance
    \/ call_average_intra_list_similarity
    \/ call_metric
    \/ call_getter

Spec == Init /\ [][Next]_vars

(***************************************************************************)
(* Vocabulary of the properties, stated without the operators above.       *)
(***************************************************************************)
AllMethods == {ILS} \cup Metrics \cup Getters
Aggregates == {ILS} \cup Metrics

\* the items at the first min(len(p), kk) positions of p
EffectiveSet(p, kk) == {p[j] : j \in {j \in DOMAIN p : j <= kk}}
EffectiveLen(p, kk) == Cardinality({j \in DOMAIN p : j <= kk})

Count(s, x) == Cardinality({j \in DOMAIN s : s[j] = x})

InUnitInterval(v) == v[2] > 0 /\ 0 <= v[1] /\ v[1] <= v[2]

\* sum of 1/log2(2 + i), in thousandths, over the 0-based positions in S
RECURSIVE DiscountSum(_)
DiscountSum(S) ==
    IF S = {} THEN 0
    ELSE LET i == CHOOSE i \in S : TRUE
         IN ((Log2Table[2] * Log2Table[2]) \div Log2Table[2 + i]) + DiscountSum(S \ {i})

\* the 0-based positions of the effective window of p whose item is in goal
HitPositions(goal, p, kk) ==
    {i \in 0 .. (EffectiveLen(p, kk) - 1) : \E j \in DOMAIN goal : goal[j] = p[i + 1]}

HasPrediction == \E i \in DOMAIN instances : Len(Prediction(instances[i])) > 0

\* insts with x written at position pos of the prediction of instance i
Perturb(insts, i, pos, x) ==
    [insts EXCEPT ![i] = <<Goal(insts[i]), [Prediction(insts[i]) EXCEPT ![pos] = x]>>]

\* insts without instance i
Without(insts, i) ==
    [j \in 1 .. (Len(insts) - 1) |-> IF j < i THEN insts[j] ELSE insts[j + 1]]

\* the contribution of one instance to the sum of a mean metric
Contrib(op, inst, kk) ==
    CASE op = "average_precision" -> PrecisionContrib(Goal(inst), Prediction(inst), kk)
      [] op = "average_recall" -> RecallContrib(Goal(inst), Prediction(inst), kk)
      [] op = "average_ndcg" -> NdcgContrib(Goal(inst), Prediction(inst), kk)

\* the methods the truncation rule names
WindowReaders == {ILS, "average_novelty", "average_precision", "average_recall",
                  "average_ndcg", "strict_success_percentage",
                  "general_success_percentage", "get_all_predictions",
                  "get_correct_predictions", "get_correct_strict_predictions",
                  "get_rank_comparison"}

ReadsOnlyWindow(ops) ==
    last.op \in ops =>
        \A i \in DOMAIN instances :
            \A pos \in DOMAIN Prediction(instances[i]) :
                pos > Min(Len(Prediction(instances[i])), k) =>
                    \A x \in Items :
                        Call(last.op, Perturb(instances, i, pos, x), k,
                             MatrixUsed(interactions, snapshot)) = last.ret

\* at least one instance, k >= 1, every goal and effective window non-empty
NonDegenerate ==
    /\ Len(instances) >= 1
    /\ k >= 1
    /\ \A i \in DOMAIN instances :
          /\ Len(Goal(instances[i])) > 0
          /\ EffectiveLen(Prediction(instances[i]), k) > 0

\* no effective window holds an item twice
DistinctWindows ==
    \A i \in DOMAIN instances :
        LET p == Prediction(instances[i])
        IN \A a, b \in DOMAIN p : (a < b /\ b <= k) => p[a] # p[b]

\* the number of leading positions max_dcg is summed over: len(goal), or
\* that capped by the length of the effective window
IdealLen(g, p, capped) == IF capped THEN Min(Len(g), EffectiveLen(p, k)) ELSE Len(g)

\* average_ndcg computes dcg / max_dcg with max_dcg summed over the first
\* IdealLen positions
NdcgAgrees(capped) ==
    last.op = "average_ndcg" =>
        /\ \A i \in DOMAIN instances :
              LET g == Goal(instances[i])
                  p == Prediction(instances[i])
              IN (Len(g) > 0 /\ EffectiveLen(p, k) > 0) =>
                    NdcgContrib(g, p, k) =
                        Ok(Rat(DiscountSum(HitPositions(g, p, k)),
                               DiscountSum(0 .. (IdealLen(g, p, capped) - 1))))
        /\ (/\ Len(instances) = 1
            /\ Len(Goal(instances[1])) > 0
            /\ EffectiveLen(Prediction(instances[1]), k) > 0) =>
              last.ret = Ok(Rat(DiscountSum(HitPositions(Goal(instances[1]),
                                                         Prediction(instances[1]), k)),
                                DiscountSum(0 .. (IdealLen(Goal(instances[1]),
                                                           Prediction(instances[1]),
                                                           capped) - 1))))

(***************************************************************************)
(* C1.  Truncation rule: the outcome of every method that consults the     *)
(* prediction is unchanged when an item at a position beyond the effective *)
(* window, i.e. at a 0-based position >= min(len(prediction), k), of any   *)
(* accumulated prediction is replaced by any other item.                   *)
(***************************************************************************)
C1_TruncationRule == ReadsOnlyWindow(WindowReaders)

\* the rule holds of every listed method but get_rank_comparison, which
\* sorts the whole prediction
C1_TruncationRuleButRank == ReadsOnlyWindow(WindowReaders \ {"get_rank_comparison"})

(***************************************************************************)
(* C2.  With at least one instance and k >= 1, average_precision() and     *)
(* average_recall() return a value v with 0 <= v <= 1.                     *)
(***************************************************************************)
C2_PrecisionRecallBounded ==
    (/\ last.op \in {"average_precision", "average_recall"}
     /\ Len(instances) >= 1
     /\ k >= 1)
    => (last.ret.err = "none" /\ InUnitInterval(last.ret.val))

\* average_precision() = 1/4 over a window holding the same item twice and
\* an instance with nothing in it
C2_Witness ==
    /\ last.op = "average_precision"
    /\ k = 2
    /\ instances = << << <<0>>, <<0, 0>> >>, << <<>>, <<>> >> >>
    /\ last.ret = Ok(<<1, 4>>)

(***************************************************************************)
(* C3.  With at least one instance, k >= 1, and every instance having a    *)
(* non-empty goal and a non-empty effective window, average_ndcg() returns *)
(* a value v with 0 <= v <= 1 (prediction items need not be distinct).     *)
(***************************************************************************)
C3_NdcgBounded ==
    (last.op = "average_ndcg" /\ NonDegenerate)
    => (last.ret.err = "none" /\ InUnitInterval(last.ret.val))

(***************************************************************************)
(* C3, amended.  As C3, for instances whose effective window holds no item *)
(* twice: then average_ndcg() returns a value v with 0 <= v <= 1, and no   *)
(* instance's dcg exceeds its max_dcg.                                     *)
(***************************************************************************)
C3_NdcgBoundedDistinct ==
    (last.op = "average_ndcg" /\ NonDegenerate /\ DistinctWindows)
    => /\ last.ret.err = "none"
       /\ InUnitInterval(last.ret.val)
       /\ \A i \in DOMAIN instances :
             LET dm == DcgLoop(Goal(instances[i]),
                               Window(Prediction(instances[i]), k), 0, <<0, 0>>)
             IN dm[1] <= dm[2]

\* goal [0], prediction [1, 0], k = 2: the hit at rank 1 gives 0.63 / 1
C3_Witness ==
    /\ last.op = "average_ndcg"
    /\ k = 2
    /\ instances = << << <<0>>, <<1, 0>> >> >>
    /\ last.ret = Ok(<<63, 100>>)

(***************************************************************************)
(* C4.  For average_precision, average_recall and average_ndcg, an         *)
(* instance with a non-empty goal whose effective window is empty          *)
(* contributes 0 and counts once in the denominator: when the other        *)
(* instances contribute normally, the call returns (the sum of their       *)
(* contributions) / (the number of instances).                             *)
(***************************************************************************)
C4_EmptyWindowContributesZero ==
    last.op \in {"average_precision", "average_recall", "average_ndcg"} =>
        \A i \in DOMAIN instances :
            LET rest == Without(instances, i)
                others == SumResults([j \in DOMAIN rest |-> Contrib(last.op, rest[j], k)])
            IN (/\ Len(Goal(instances[i])) > 0
                /\ EffectiveLen(Prediction(instances[i]), k) = 0
                /\ others.err = "none")
               => last.ret = Ok(RatDivInt(others.val, Len(instances)))

C6_Idempotent ==
    [][(last.op \in AllMethods /\ last'.op = last.op) => last'.ret = last.ret]_vars

\* average_intra_list_similarity called twice in a row on prediction
\* [0, 1]: the second call computes from the cached matrix
C6_Witness ==
    /\ last.op = ILS
    /\ last.again
    /\ k = 2
    /\ instances = << << <<>>, <<0, 1>> >> >>
    /\ interactions = <<Matrix(TrainRows)>>
    /\ last.ret = Ok(<<707, 1000>>)

(***************************************************************************)
(* C7.  _load_interaction_matrix runs at most once: not before the first   *)
(* average_intra_list_similarity call that meets an instance with a        *)
(* non-empty prediction, during that call, and never again; once built the *)
(* cached matrix stays as it is, also when instances are added.            *)
(***************************************************************************)
C7_LoadedOnce ==
    /\ nloads = 0
    /\ [][/\ nloads' # nloads =>
                (nloads = 0 /\ nloads' = 1 /\ last'.op = ILS /\ HasPrediction)
          /\ (last'.op = ILS /\ HasPrediction /\ nloads = 0 /\ last' # last) =>
                (nloads' = 1 /\ interactions' # <<>>)
          /\ interactions # <<>> => interactions' = interactions]_vars

\* a repeated average_intra_list_similarity call over two instances, the
\* matrix having been loaded once
C7_Witness ==
    /\ last.op = ILS
    /\ last.again
    /\ Len(instances) = 2
    /\ HasPrediction
    /\ nloads = 1
    /\ interactions # <<>>

(***************************************************************************)
(* C8.  With no instance added, every aggregate metric ends in a           *)
(* ZeroDivisionError and leaves the instance list empty.                   *)
(***************************************************************************)
C8_EmptyDivisionByZero ==
    [][(instances = <<>> /\ last'.op \in Aggregates) =>
          (last'.ret = ZeroDivisionError /\ instances' = <<>>)]_vars

C8_Witness ==
    /\ instances = <<>>
    /\ last.op = "average_ndcg"
    /\ last.ret = ZeroDivisionError

(***************************************************************************)
(* C9.  The instance list is append-only: add_instance lengthens it by one *)
(* and leaves the earlier elements and k unchanged; every metric and       *)
(* getter call, returning or failing, leaves the list and k unchanged.     *)
(***************************************************************************)
C9_AppendOnly ==
    [][/\ k' = k
       /\ IF last'.op = "add_instance"
          THEN /\ Len(instances') = Len(instances) + 1
               /\ SubSeq(instances', 1, Len(instances)) = instances
          ELSE instances' = instances]_vars

\* an empty goal with an empty prediction is accepted as the second instance
C9_Witness ==
    /\ last.op = "add_instance"
    /\ instances = << << <<1>>, <<0, 1>> >>, << <<>>, <<>> >> >>

(***************************************************************************)
(* C10.  For an instance with a non-empty effective window (and a          *)
(* non-empty goal), average_ndcg's contribution is dcg / max_dcg with dcg  *)
(* the sum of 1/log2(2+i) over the window positions i whose item is in the *)
(* goal and max_dcg the sum of 1/log2(2+i) over all i < len(goal).         *)
(***************************************************************************)
C10_NdcgIdealOverGoal == NdcgAgrees(FALSE)

(***************************************************************************)
(* C10, amended.  As C10, with max_dcg the sum of 1/log2(2+i) over the     *)
(* positions i < min(len(goal), length of the effective window).           *)
(***************************************************************************)
C10_NdcgIdealOverWindow == NdcgAgrees(TRUE)

\* goal [0, 1] longer than the window [1] of prediction [1, 0] at k = 1:
\* dcg = max_dcg = 1
C10_Witness ==
    /\ last.op = "average_ndcg"
    /\ k = 1
    /\ instances = << << <<0, 1>>, <<1, 0>> >> >>
    /\ last.ret = Ok(One)

====
